---------------------------- MODULE Spec2Model ----------------------------
(***************************************************************************)
(* Availability-and-selection state model of the Capitol Outdoor map       *)
(* viewer: the availability resolver and gap finder (lib/availability),    *)
(* the CSV import dialog (components/AvailabilityImport) and the registry  *)
(* held by the page (app/page).                                            *)
(*                                                                         *)
(* Representation.  A canonical date string "YYYY-MM-DD" is represented by *)
(* its day number (day 0 = 2026-01-01); for fixed-width big-endian strings *)
(* the lexicographic order the code uses is the order of the day numbers.  *)
(* A JavaScript Date is an instant, counted in hours from midnight UTC of   *)
(* day 0.  Local time is the environment's: an offset from UTC and at most *)
(* one daylight-saving transition in the days the model covers.            *)
(* "T | undefined" and "T | null" are sequences of length at most one.     *)
(* The optional client and notes of a period are carried through unchanged *)
(* and take part in no decision; they are left out.                        *)
(***************************************************************************)
EXTENDS Integers, Sequences, FiniteSets, TLC

VARIABLES
    \* --- resolver calls (lib/availability) ---
    qAvail,         \* the UnitAvailability | undefined passed to the resolver
    qOp,            \* last resolver call: "none" | "current" | "range"
    qDate,          \* date argument of getCurrentAvailability (an instant)
    qStart,         \* startDate argument of getAvailabilityForRange (a day)
    qEnd,           \* endDate argument of getAvailabilityForRange (a day)
    qCurrent,       \* result of getCurrentAvailability (period | null)
    qRange,         \* result of getAvailabilityForRange (a status)
    \* --- getNextAvailablePeriod, one step per loop iteration ---
    gAvail,         \* the UnitAvailability | undefined passed in
    startFrom,      \* the startFrom argument (an instant)
    sortedPeriods,  \* the filtered, sorted copy of the periods
    gi,             \* position of the for-of loop in sortedPeriods
    checkDate,      \* the cursor (an instant)
    gResult,        \* the returned window (or <<>> while running)
    gpc,            \* "start" | "loop" | "done"
    \* --- parseCSV calls (components/AvailabilityImport) ---
    csvText,        \* the text passed to parseCSV, as its lines
    csvResult,      \* the returned {rows, errors} (or <<>> before the call)
    \* --- normalizeDate calls (components/AvailabilityImport) ---
    nInput,         \* the date string passed to normalizeDate
    nOnce,          \* the string returned for nInput (or null before the call)
    nTwice,         \* the string returned for nOnce (or null before the call)
    \* --- the row splitter of parseCSV ---
    sLine,          \* a line of the text
    sValues,        \* the values array built from it (or <<>> before the run)
    \* --- repeated calls of the resolver and the gap finder on one entry ---
    pAvail,         \* the UnitAvailability | undefined object, as it is now
    pCall,          \* the call made first and repeated (or null)
    pFirst,         \* what the first call returned (or null)
    pBetween,       \* the operation called between the two ("none" if none)
    pAgain,         \* what the repeated call returned (or null)
    pPc,            \* "ready" | "first" | "between" | "again"
    \* --- the unit list of the sidebar (components/Sidebar) ---
    sbAvailability,     \* the availability prop: unit id -> UnitAvailability
    sbNow,              \* new Date() at the time of the render (an instant)
    marketFilter,       \* the market chosen, "" for none
    typeFilter,         \* the type chosen, "" for none
    availabilityFilter, \* the status chosen, "" for none
    filteredUnits,      \* the units listed by the render (or null before it)
    \* --- the selection (app/page) ---
    selectedIds,    \* the set of selected unit ids
    toggleCount,    \* unit id -> number of handleToggleSelect calls so far
    lastToggled,    \* the unit ids of the last two calls, latest first
    selectedBefore, \* selectedIds before each of the last two calls
    \* --- the environment ---
    tz,             \* the local time zone: offset and DST transition
    \* --- the page (app/page) ---
    availability,       \* the registry: unit id -> UnitAvailability
    reader,             \* a Map object a component was handed (or null)
    isAvailImportOpen,  \* whether the import dialog is mounted
    \* --- the import dialog (components/AvailabilityImport) ---
    file,           \* the selected file (or null)
    parsedData,     \* the validated rows shown
    errors,         \* the errors shown
    isProcessing,   \* the processing flag
    reads,          \* the files whose text() is still awaited
    imports         \* number of imports so far; the clock behind "now"

qVars == <<qAvail, qOp, qDate, qStart, qEnd, qCurrent, qRange>>
gVars == <<gAvail, startFrom, sortedPeriods, gi, checkDate, gResult, gpc>>
cVars == <<csvText, csvResult>>
nVars == <<nInput, nOnce, nTwice>>
dVars == <<file, parsedData, errors, isProcessing, reads>>
aVars == <<availability, reader, isAvailImportOpen, dVars, imports>>
sVars == <<sLine, sValues>>
pVars == <<pAvail, pCall, pFirst, pBetween, pAgain, pPc>>
fVars == <<sbAvailability, sbNow, marketFilter, typeFilter, availabilityFilter,
          filteredUnits>>
tVars == <<selectedIds, toggleCount, lastToggled, selectedBefore>>
vars == <<qVars, gVars, cVars, nVars, sVars, pVars, fVars, tVars, tz, aVars>>

----------------------------------------------------------------------------
(* Bounds of the model *)

MaxDay == 1           \* resolver inputs: days 0..MaxDay
MaxPeriods == 2       \* resolver inputs: at most this many periods
MaxGapDay == 56       \* gap finder inputs: window boundaries up to this day
MaxGapPeriods == 2    \* gap finder inputs: at most this many periods
MaxRows == 2          \* parseCSV inputs: at most this many lines after the header
MaxReads == 2         \* at most this many file reads in flight
MaxImports == 2       \* at most this many imports in a session
MaxPurePeriods == 2    \* repeated calls: an entry of at most this many periods
MaxSidebarPeriods == 2 \* sidebar inputs: an entry of at most this many periods
MaxToggles == 6       \* at most this many toggles of one unit
MaxLineLen == 5       \* row splitter inputs: lines of at most this many tokens

(* Program constants *)

WindowDays == 27      \* end.setDate(end.getDate() + 27)

----------------------------------------------------------------------------
(* Types (lib/types.ts) *)

AvailabilityStatus == {"available", "sold", "hold", "pending"}

AvailabilityPeriod(days) ==
    [startDate : days, endDate : days, status : AvailabilityStatus]

UnitAvailability(u, ps, t) == [unitId |-> u, periods |-> ps, lastUpdated |-> t]

SeqsUpTo(S, n) == UNION {[1..k -> S] : k \in 0..n}

Null == <<>>
EmptyMap == [u \in {} |-> 0]
Some(x) == <<x>>

(* Dates *)

\* new Date("YYYY-MM-DD"): midnight UTC of that day
DateOfString(day) == day * 24

\* date.toISOString().split('T')[0]: the UTC day of an instant
toISODate(instant) == instant \div 24

\* A time zone: local time is UTC + offset hours until 02:00 local time of
\* day dstDay, and UTC + offset + dstShift hours from then on.
transitionAt(zone) == zone.dstDay * 24 + 2 - zone.offset

\* the offset of local time from UTC in force at an instant
offsetAt(instant, zone) ==
    IF zone.dstShift # 0 /\ instant >= transitionAt(zone)
    THEN zone.offset + zone.dstShift
    ELSE zone.offset

\* the instant of a local wall-clock time; a repeated time is its first
\* occurrence, a skipped time is read with the offset before the transition
utcOfLocal(wall, zone) ==
    IF zone.dstShift = 0 \/ wall - zone.offset < transitionAt(zone)
    THEN wall - zone.offset
    ELSE IF wall - (zone.offset + zone.dstShift) >= transitionAt(zone)
         THEN wall - (zone.offset + zone.dstShift)
         ELSE wall - zone.offset

\* d.setDate(d.getDate() + n): the same local time of day, n local days on
addDays(instant, n, zone) ==
    utcOfLocal(instant + offsetAt(instant, zone) + n * 24, zone)

\* the environments: UTC; a zone behind UTC whose clocks go forward on day
\* 28; one whose clocks go back on day 14; a zone ahead of UTC
UTC == [offset |-> 0, dstDay |-> 0, dstShift |-> 0]
SpringForward == [offset |-> -5, dstDay |-> 28, dstShift |-> 1]
FallBack == [offset |-> -4, dstDay |-> 14, dstShift |-> -1]
EastOfUTC == [offset |-> 1, dstDay |-> 0, dstShift |-> 0]
Zones == {UTC, SpringForward, FallBack, EastOfUTC}

\* the time of day of the instants passed in, in hours after midnight UTC
Hours == {0, 12, 23}

----------------------------------------------------------------------------
(* Availability resolver (lib/availability) *)

\* periods.find(p => dateStr >= p.startDate && dateStr <= p.endDate)
containsDate(period, dateStr) ==
    dateStr >= period.startDate /\ dateStr <= period.endDate

findActivePeriodLast(periods, dateStr) ==
    LET hits == {i \in 1..Len(periods) : containsDate(periods[i], dateStr)}
    IN  IF hits = {} THEN Null
        ELSE Some(periods[CHOOSE i \in hits : \A j \in hits : j <= i])

findActivePeriod(periods, dateStr) ==
    LET hits == {i \in 1..Len(periods) : containsDate(periods[i], dateStr)}
    IN  IF hits = {} THEN Null
        ELSE Some(periods[CHOOSE i \in hits : \A j \in hits : i <= j])

getCurrentAvailabilityDefault(unitAvail, date) ==
    IF unitAvail = Null \/ Len(unitAvail[1].periods) = 0
    THEN Some([startDate |-> toISODate(date), endDate |-> toISODate(date),
               status |-> "available"])
    ELSE findActivePeriod(unitAvail[1].periods, toISODate(date))

getCurrentAvailability(unitAvail, date) ==
    IF unitAvail = Null \/ Len(unitAvail[1].periods) = 0
    THEN Null
    ELSE findActivePeriod(unitAvail[1].periods, toISODate(date))

statusPriorityFlat(status) ==
    CASE status = "sold" -> 3
      [] status = "hold" -> 3
      [] status = "pending" -> 2
      [] status = "available" -> 1

statusPriority(status) ==
    CASE status = "sold" -> 4
      [] status = "hold" -> 3
      [] status = "pending" -> 2
      [] status = "available" -> 1

overlapsRangeStrict(period, startDate, endDate) ==
    period.startDate < endDate /\ period.endDate > startDate

\* period.startDate <= endDate && period.endDate >= startDate
overlapsRange(period, startDate, endDate) ==
    period.startDate <= endDate /\ period.endDate >= startDate

\* the for-of loop of getAvailabilityForRange, from position i on
RECURSIVE worstStatusFrom(_, _, _, _, _)
worstStatusFrom(periods, i, startDate, endDate, worstStatus) ==
    IF i > Len(periods) THEN worstStatus
    ELSE LET period == periods[i]
             next == IF overlapsRange(period, startDate, endDate)
                        /\ statusPriority(period.status)
                             > statusPriority(worstStatus)
                     THEN period.status
                     ELSE worstStatus
         IN  worstStatusFrom(periods, i + 1, startDate, endDate, next)

getAvailabilityForRange(unitAvail, startDate, endDate) ==
    IF unitAvail = Null \/ Len(unitAvail[1].periods) = 0
    THEN "available"
    ELSE worstStatusFrom(unitAvail[1].periods, 1, startDate, endDate,
                         "available")

getOverlappingPeriods(unitAvail, startDate, endDate) ==
    IF unitAvail = Null THEN <<>>
    ELSE SelectSeq(unitAvail[1].periods,
                   LAMBDA period : overlapsRange(period, startDate, endDate))

----------------------------------------------------------------------------
(* Resolver calls on an arbitrary unit entry *)

QDays == 0..MaxDay
QInstants == {d * 24 + h : d \in QDays, h \in Hours}

QAvailInputs ==
    {Null} \cup
    {Some(UnitAvailability("u1", ps, 0)) :
        ps \in SeqsUpTo(AvailabilityPeriod(QDays), MaxPeriods)}

QIdle ==
    /\ qAvail = Null
    /\ qOp = "none"
    /\ qDate = 0
    /\ qStart = 0
    /\ qEnd = 0
    /\ qCurrent = Null
    /\ qRange = "none"

QInit ==
    /\ qAvail \in QAvailInputs
    /\ qOp = "none"
    /\ qDate = 0
    /\ qStart = 0
    /\ qEnd = 0
    /\ qCurrent = Null
    /\ qRange = "none"

CallGetCurrentAvailability ==
    \E date \in QInstants :
        /\ qOp = "none"
        /\ qOp' = "current"
        /\ qDate' = date
        /\ qCurrent' = getCurrentAvailability(qAvail, date)
        /\ qStart' = 0
        /\ qEnd' = 0
        /\ qRange' = "none"
        /\ UNCHANGED qAvail

CallGetAvailabilityForRange ==
    \E startDate \in QDays, endDate \in QDays :
        /\ qOp = "none"
        /\ qOp' = "range"
        /\ qStart' = startDate
        /\ qEnd' = endDate
        /\ qRange' = getAvailabilityForRange(qAvail, startDate, endDate)
        /\ qDate' = 0
        /\ qCurrent' = Null
        /\ UNCHANGED qAvail

QNext ==
    \/ CallGetCurrentAvailability /\ UNCHANGED <<gVars, cVars, nVars, sVars, pVars, fVars, tVars, tz, aVars>>
    \/ CallGetAvailabilityForRange /\ UNCHANGED <<gVars, cVars, nVars, sVars, pVars, fVars, tVars, tz, aVars>>

----------------------------------------------------------------------------
(* Gap finder (lib/availability) *)

generate4WeekPeriod(startDate, zone) ==
    [startDate |-> toISODate(startDate),
     endDate |-> toISODate(addDays(startDate, WindowDays, zone))]

isBlockingOrPending(p) == p.status # "available"

\* p.status === 'sold' || p.status === 'hold'
isBlocking(p) == p.status = "sold" \/ p.status = "hold"

\* Array.prototype.sort is stable: equal start dates keep their order
insertByStart(sorted, p) ==
    LET k == Cardinality({i \in 1..Len(sorted) :
                             sorted[i].startDate <= p.startDate})
    IN  SubSeq(sorted, 1, k) \o <<p>> \o SubSeq(sorted, k + 1, Len(sorted))

RECURSIVE sortByStart(_)
sortByStart(ps) ==
    IF ps = <<>> THEN <<>>
    ELSE insertByStart(sortByStart(SubSeq(ps, 1, Len(ps) - 1)), ps[Len(ps)])

\* [...periods].filter(sold or hold).sort(by startDate)
blockingSorted(periods) == sortByStart(SelectSeq(periods, isBlocking))

\* proposedEnd < periodStart, with proposedEnd = checkDate + 27 days
gapFits(cursor, periodStart, zone) ==
    addDays(cursor, WindowDays, zone) < periodStart

\* the array availability.periods after the call: the sort runs on the copy
\* made by [...availability.periods]
periodsAfterGapSearchInPlace(periods) == sortByStart(periods)

periodsAfterGapSearch(periods) == periods

\* the for-of loop of getNextAvailablePeriod from position i on, and the
\* return after it
RECURSIVE walkPeriods(_, _, _, _)
walkPeriods(sorted, i, cursor, zone) ==
    IF i > Len(sorted) THEN generate4WeekPeriod(cursor, zone)
    ELSE LET periodStart == DateOfString(sorted[i].startDate)
             periodEnd == DateOfString(sorted[i].endDate)
         IN  IF cursor < periodStart /\ gapFits(cursor, periodStart, zone)
             THEN [startDate |-> toISODate(cursor),
                   endDate |-> toISODate(addDays(cursor, WindowDays, zone))]
             ELSE walkPeriods(sorted, i + 1,
                              IF cursor <= periodEnd
                              THEN addDays(periodEnd, 1, zone)
                              ELSE cursor,
                              zone)

getNextAvailablePeriod(unitAvail, from, zone) ==
    IF unitAvail = Null \/ Len(unitAvail[1].periods) = 0
    THEN generate4WeekPeriod(from, zone)
    ELSE walkPeriods(blockingSorted(unitAvail[1].periods), 1, from, zone)

GapDays == {d \in 0..MaxGapDay : d % (WindowDays + 1) = 0}
GapInstants == {d * 24 + h : d \in GapDays, h \in Hours}

\* the gap finder is run on periods as the data model describes them
GapPeriods == {p \in AvailabilityPeriod(GapDays) : p.startDate <= p.endDate}

GAvailInputs ==
    {Null} \cup
    {Some(UnitAvailability("u1", ps, 0)) :
        ps \in SeqsUpTo(GapPeriods, MaxGapPeriods)}

GIdle ==
    /\ gAvail = Null
    /\ startFrom = 0
    /\ sortedPeriods = <<>>
    /\ gi = 0
    /\ checkDate = 0
    /\ gResult = Null
    /\ gpc = "idle"

GInit ==
    /\ gAvail \in GAvailInputs
    /\ startFrom = 0
    /\ sortedPeriods = <<>>
    /\ gi = 0
    /\ checkDate = 0
    /\ gResult = Null
    /\ gpc = "start"

\* a call of getNextAvailablePeriod, up to the first loop test
GapEnter ==
    /\ gpc = "start"
    /\ \E from \in GapInstants :
        /\ startFrom' = from
        /\ IF gAvail = Null \/ Len(gAvail[1].periods) = 0
           THEN /\ gResult' = Some(generate4WeekPeriod(from, tz))
                /\ gpc' = "done"
                /\ UNCHANGED <<sortedPeriods, gi, checkDate>>
           ELSE /\ sortedPeriods' = blockingSorted(gAvail[1].periods)
                /\ checkDate' = from
                /\ gi' = 1
                /\ gpc' = "loop"
                /\ UNCHANGED gResult
    /\ UNCHANGED gAvail

\* one iteration of "for (const period of sortedPeriods)"
GapIterate ==
    /\ gpc = "loop"
    /\ gi <= Len(sortedPeriods)
    /\ LET period == sortedPeriods[gi]
           periodStart == DateOfString(period.startDate)
           periodEnd == DateOfString(period.endDate)
       IN  IF checkDate < periodStart /\ gapFits(checkDate, periodStart, tz)
           THEN /\ gResult' = Some([startDate |-> toISODate(checkDate),
                       endDate |-> toISODate(addDays(checkDate, WindowDays, tz))])
                /\ gpc' = "done"
                /\ UNCHANGED <<gi, checkDate>>
           ELSE /\ checkDate' = IF checkDate <= periodEnd
                                THEN addDays(periodEnd, 1, tz)
                                ELSE checkDate
                /\ gi' = gi + 1
                /\ UNCHANGED <<gResult, gpc>>
    /\ UNCHANGED <<gAvail, startFrom, sortedPeriods>>

\* the loop ran out: return generate4WeekPeriod(checkDate)
GapFallThrough ==
    /\ gpc = "loop"
    /\ gi > Len(sortedPeriods)
    /\ gResult' = Some(generate4WeekPeriod(checkDate, tz))
    /\ gpc' = "done"
    /\ UNCHANGED <<gAvail, startFrom, sortedPeriods, gi, checkDate>>

GNext ==
    \/ GapEnter /\ UNCHANGED <<qVars, cVars, nVars, sVars, pVars, fVars, tVars, tz, aVars>>
    \/ GapIterate /\ UNCHANGED <<qVars, cVars, nVars, sVars, pVars, fVars, tVars, tz, aVars>>
    \/ GapFallThrough /\ UNCHANGED <<qVars, cVars, nVars, sVars, pVars, fVars, tVars, tz, aVars>>

----------------------------------------------------------------------------
(* CSV parsing (components/AvailabilityImport).                            *)
(*                                                                         *)
(* A string is a sequence of tokens: the comma, the double quote, the      *)
(* blank, and words (maximal runs of other characters).  A text is the     *)
(* sequence of its lines.  The value undefined is Null; a defined string   *)
(* s is Some(s).                                                           *)

COMMA == ","
QUOTE == "\""
SPACE == " "

\* String.prototype.toLowerCase, on the words that occur
lowerToken(t) ==
    CASE t = "SOLD" -> "sold"
      [] t = "Hold" -> "hold"
      [] t = "Status" -> "status"
      [] t = "ID" -> "id"
      [] t = "From" -> "from"
      [] t = "To" -> "to"
      [] t = "AC-10D" -> "ac-10d"
      [] t = "ZZ-99" -> "zz-99"
      [] OTHER -> t

toLowerCase(s) == [i \in 1..Len(s) |-> lowerToken(s[i])]

\* String.prototype.trim
trim(s) ==
    LET keep == {i \in 1..Len(s) : s[i] # SPACE}
    IN  IF keep = {} THEN <<>>
        ELSE SubSeq(s, CHOOSE i \in keep : \A j \in keep : i <= j,
                       CHOOSE i \in keep : \A j \in keep : j <= i)

isBlank(s) == \A i \in 1..Len(s) : s[i] = SPACE

trimmedLinesDropBlank(text) ==
    LET kept == SelectSeq(text, LAMBDA l : ~ isBlank(l))
    IN  IF kept = <<>> THEN << <<>> >> ELSE [k \in 1..Len(kept) |-> trim(kept[k])]

\* text.trim().split('\n')
trimmedLines(text) ==
    LET keep == {i \in 1..Len(text) : ~ isBlank(text[i])}
    IN  IF keep = {} THEN << <<>> >>
        ELSE LET first == CHOOSE i \in keep : \A j \in keep : i <= j
                 last == CHOOSE i \in keep : \A j \in keep : j <= i
             IN  [k \in 1..(last - first + 1) |->
                    IF first = last THEN trim(text[first])
                    ELSE IF k = 1 THEN
                        LET l == text[first]
                            nb == {i \in 1..Len(l) : l[i] # SPACE}
                        IN  SubSeq(l, CHOOSE i \in nb : \A j \in nb : i <= j,
                                   Len(l))
                    ELSE IF k = last - first + 1 THEN
                        LET l == text[last]
                            nb == {i \in 1..Len(l) : l[i] # SPACE}
                        IN  SubSeq(l, 1, CHOOSE i \in nb : \A j \in nb : j <= i)
                    ELSE text[first + k - 1]]

\* String.prototype.split(',')
RECURSIVE splitComma(_, _, _, _)
splitComma(s, k, cells, current) ==
    IF k > Len(s) THEN Append(cells, current)
    ELSE IF s[k] = COMMA
         THEN splitComma(s, k + 1, Append(cells, current), <<>>)
         ELSE splitComma(s, k + 1, cells, Append(current, s[k]))

\* lines[0]?.toLowerCase().split(',').map(h => h.trim())
headerCells(line) ==
    LET cells == splitComma(toLowerCase(line), 1, <<>>, <<>>)
    IN  [i \in 1..Len(cells) |-> trim(cells[i])]

\* Array.prototype.findIndex: 0-based, -1 when nothing matches
findIndex(cells, names) ==
    LET hits == {i \in 1..Len(cells) : cells[i] \in names}
    IN  IF hits = {} THEN -1
        ELSE (CHOOSE i \in hits : \A j \in hits : i <= j) - 1

unitIdNames == {<<"unit_id">>, <<"unitid">>, <<"unit", SPACE, "id">>, <<"id">>}
startNames == {<<"start_date">>, <<"startdate">>, <<"start">>, <<"from">>}
endNames == {<<"end_date">>, <<"enddate">>, <<"end">>, <<"to">>}
statusNames == {<<"status">>, <<"availability">>}

columns(header) ==
    [unitIdIdx |-> findIndex(header, unitIdNames),
     startIdx |-> findIndex(header, startNames),
     endIdx |-> findIndex(header, endNames),
     statusIdx |-> findIndex(header, statusNames)]

missingRequired(cols) ==
    \/ cols.unitIdIdx = -1
    \/ cols.startIdx = -1
    \/ cols.endIdx = -1
    \/ cols.statusIdx = -1

\* the quote-aware splitter: "for (const char of line)" from position k on
RECURSIVE splitValues(_, _, _, _, _)
RECURSIVE splitValuesAtEveryComma(_, _, _, _, _)

splitValuesAtEveryComma(line, k, values, current, inQuotes) ==
    IF k > Len(line) THEN Append(values, trim(current))
    ELSE IF line[k] = QUOTE
         THEN splitValuesAtEveryComma(line, k + 1, values, current, ~ inQuotes)
         ELSE IF line[k] = COMMA
              THEN splitValuesAtEveryComma(line, k + 1,
                                           Append(values, trim(current)),
                                           <<>>, inQuotes)
              ELSE splitValuesAtEveryComma(line, k + 1, values,
                                           Append(current, line[k]), inQuotes)

splitValues(line, k, values, current, inQuotes) ==
    IF k > Len(line) THEN Append(values, trim(current))
    ELSE IF line[k] = QUOTE
         THEN splitValues(line, k + 1, values, current, ~ inQuotes)
         ELSE IF line[k] = COMMA /\ ~ inQuotes
              THEN splitValues(line, k + 1, Append(values, trim(current)),
                               <<>>, inQuotes)
              ELSE splitValues(line, k + 1, values, Append(current, line[k]),
                               inQuotes)

\* values[idx]?.replace(/"/g, '')
valueAt(values, idx) ==
    IF idx >= 0 /\ idx < Len(values)
    THEN Some(SelectSeq(values[idx + 1], LAMBDA t : t # QUOTE))
    ELSE Null

\* the string shown for a value inside a template literal
shown(v) == IF v = Null THEN <<"undefined">> ELSE v[1]

\* !value : undefined or the empty string
isFalsy(v) == v = Null \/ v[1] = <<>>

\* new Date(dateStr): date-only ISO forms are UTC midnight, other accepted
\* forms are local midnight, everything else is an invalid date (Null)
UsDates == <<"01/01/2026", "01/02/2026", "01/03/2026">>

\* the date-only ISO strings that occur, and the day each of them names
IsoDates ==
    {"2025-12-31", "2026-01-01", "2026-01-02", "2026-01-03", "+020000-01-01"}

dayOfIsoDate(t) ==
    CASE t = "2025-12-31" -> -1
      [] t = "2026-01-01" -> 0
      [] t = "2026-01-02" -> 1
      [] t = "2026-01-03" -> 2
      [] t = "+020000-01-01" -> 6564868

\* the date part of date.toISOString() for the days that occur; a year after
\* 9999 is written with a sign and six digits
dateStringUs(day) ==
    CASE day = -1 -> "12/31/2025"
      [] day = 0 -> "01/01/2026"
      [] day = 1 -> "01/02/2026"
      [] day = 2 -> "01/03/2026"
      [] day = 6564868 -> "01/01/20000"

dateString(day) ==
    CASE day = -1 -> "2025-12-31"
      [] day = 0 -> "2026-01-01"
      [] day = 1 -> "2026-01-02"
      [] day = 2 -> "2026-01-03"
      [] day = 6564868 -> "+020000-01-01"

newDate(s, zone) ==
    IF \E t \in IsoDates : s = <<t>>
    THEN Some(DateOfString(dayOfIsoDate(s[1])))
    ELSE IF \E d \in 1..Len(UsDates) : s = <<UsDates[d]>>
    THEN Some(utcOfLocal(((CHOOSE d \in 1..Len(UsDates) :
                              s = <<UsDates[d]>>) - 1) * 24, zone))
    ELSE Null

isValidDateAlways(s, zone) == TRUE

isValidDate(s, zone) == newDate(s, zone) # Null

\* date.toISOString() throws a RangeError on an invalid date
toISOStringThrows(date) == date = Null

\* the outcome of a call that ended in an exception
Thrown == [threw |-> "RangeError"]

normalizeDate(s, zone) == toISODate(newDate(s, zone)[1])

validStatuses == {<<"available">>, <<"sold">>, <<"hold">>, <<"pending">>}

ParseError(row, message, value) ==
    [row |-> row, message |-> message, value |-> value]

\* the validation of one data row: Some(error), or Null when the row passes
rowErrorAnyUnit(i, unitId, startDate, endDate, status, ids, zone) ==
    IF isFalsy(unitId)
    THEN Some(ParseError(i + 1, "Missing unit ID", <<>>))
    ELSE IF isFalsy(startDate) \/ ~ isValidDate(startDate[1], zone)
    THEN Some(ParseError(i + 1, "Invalid start date: ", shown(startDate)))
    ELSE IF isFalsy(endDate) \/ ~ isValidDate(endDate[1], zone)
    THEN Some(ParseError(i + 1, "Invalid end date: ", shown(endDate)))
    ELSE IF status = Null \/ status[1] \notin validStatuses
    THEN Some(ParseError(i + 1, "Invalid status: ", shown(status)))
    ELSE Null

rowErrorStatusFirst(i, unitId, startDate, endDate, status, ids, zone) ==
    IF isFalsy(unitId)
    THEN Some(ParseError(i + 1, "Missing unit ID", <<>>))
    ELSE IF unitId[1] \notin ids
    THEN Some(ParseError(i + 1, "Unknown unit ID: ", shown(unitId)))
    ELSE IF status = Null \/ status[1] \notin validStatuses
    THEN Some(ParseError(i + 1, "Invalid status: ", shown(status)))
    ELSE IF isFalsy(startDate) \/ ~ isValidDate(startDate[1], zone)
    THEN Some(ParseError(i + 1, "Invalid start date: ", shown(startDate)))
    ELSE IF isFalsy(endDate) \/ ~ isValidDate(endDate[1], zone)
    THEN Some(ParseError(i + 1, "Invalid end date: ", shown(endDate)))
    ELSE Null

rowError(i, unitId, startDate, endDate, status, ids, zone) ==
    IF isFalsy(unitId)
    THEN Some(ParseError(i + 1, "Missing unit ID", <<>>))
    ELSE IF unitId[1] \notin ids
    THEN Some(ParseError(i + 1, "Unknown unit ID: ", shown(unitId)))
    ELSE IF isFalsy(startDate) \/ ~ isValidDate(startDate[1], zone)
    THEN Some(ParseError(i + 1, "Invalid start date: ", shown(startDate)))
    ELSE IF isFalsy(endDate) \/ ~ isValidDate(endDate[1], zone)
    THEN Some(ParseError(i + 1, "Invalid end date: ", shown(endDate)))
    ELSE IF status = Null \/ status[1] \notin validStatuses
    THEN Some(ParseError(i + 1, "Invalid status: ", shown(status)))
    ELSE Null

RECURSIVE parseRows(_, _, _, _, _, _, _)

parseRowsStopAtError(lines, i, cols, ids, zone, rows, errs) ==
    IF i >= Len(lines) THEN [rows |-> rows, errors |-> errs]
    ELSE LET line == trim(lines[i + 1])
             values == splitValues(line, 1, <<>>, <<>>, FALSE)
             unitId == valueAt(values, cols.unitIdIdx)
             startDate == valueAt(values, cols.startIdx)
             endDate == valueAt(values, cols.endIdx)
             raw == valueAt(values, cols.statusIdx)
             status == IF raw = Null THEN Null ELSE Some(toLowerCase(raw[1]))
             err == rowError(i, unitId, startDate, endDate, status, ids, zone)
         IN  IF line = <<>>
             THEN parseRows(lines, i + 1, cols, ids, zone, rows, errs)
             ELSE IF err # Null
             THEN [rows |-> rows, errors |-> Append(errs, err[1])]
             ELSE IF \/ toISOStringThrows(newDate(startDate[1], zone))
                     \/ toISOStringThrows(newDate(endDate[1], zone))
             THEN Thrown
             ELSE parseRows(lines, i + 1, cols, ids, zone,
                            Append(rows,
                                [unitId |-> unitId[1],
                                 startDate |-> normalizeDate(startDate[1], zone),
                                 endDate |-> normalizeDate(endDate[1], zone),
                                 status |-> status[1][1]]),
                            errs)

\* the body of "for (let i = 1; i < lines.length; i++)", from index i on
parseRows(lines, i, cols, ids, zone, rows, errs) ==
    IF i >= Len(lines) THEN [rows |-> rows, errors |-> errs]
    ELSE LET line == trim(lines[i + 1])
             values == splitValues(line, 1, <<>>, <<>>, FALSE)
             unitId == valueAt(values, cols.unitIdIdx)
             startDate == valueAt(values, cols.startIdx)
             endDate == valueAt(values, cols.endIdx)
             raw == valueAt(values, cols.statusIdx)
             status == IF raw = Null THEN Null ELSE Some(toLowerCase(raw[1]))
             err == rowError(i, unitId, startDate, endDate, status, ids, zone)
         IN  IF line = <<>>
             THEN parseRows(lines, i + 1, cols, ids, zone, rows, errs)
             ELSE IF err # Null
             THEN parseRows(lines, i + 1, cols, ids, zone, rows,
                            Append(errs, err[1]))
             ELSE IF \/ toISOStringThrows(newDate(startDate[1], zone))
                     \/ toISOStringThrows(newDate(endDate[1], zone))
             THEN Thrown
             ELSE parseRows(lines, i + 1, cols, ids, zone,
                            Append(rows,
                                [unitId |-> unitId[1],
                                 startDate |-> normalizeDate(startDate[1], zone),
                                 endDate |-> normalizeDate(endDate[1], zone),
                                 status |-> status[1][1]]),
                            errs)

headerErrorRowZero ==
    ParseError(0, "Missing required columns. Expected: unit_id, start_date, end_date, status", <<>>)

headerError ==
    ParseError(1, "Missing required columns. Expected: unit_id, start_date, end_date, status", <<>>)

parseCSVNoAbort(text, ids, zone) ==
    LET lines == trimmedLines(text)
        cols == columns(headerCells(lines[1]))
    IN  IF missingRequired(cols)
        THEN parseRows(lines, 1, cols, ids, zone, <<>>, <<headerError>>)
        ELSE parseRows(lines, 1, cols, ids, zone, <<>>, <<>>)

parseCSV(text, ids, zone) ==
    LET lines == trimmedLines(text)
        cols == columns(headerCells(lines[1]))
    IN  IF missingRequired(cols)
        THEN [rows |-> <<>>, errors |-> <<headerError>>]
        ELSE parseRows(lines, 1, cols, ids, zone, <<>>, <<>>)

----------------------------------------------------------------------------
(* parseCSV calls on arbitrary texts *)

\* units.map(u => u.id): the ids of the catalog
unitIds == {<<"AC-10D">>, <<"AC-11">>}

SampleHeaders ==
    { <<"unit_id", COMMA, "start_date", COMMA, "end_date", COMMA, "status">>,
      <<"ID", COMMA, SPACE, "From", COMMA, "To", SPACE, COMMA, "Status">>,
      <<"unit_id", COMMA, "start_date", COMMA, "end_date">>,
      <<"client", COMMA, "unit_id", COMMA, "start_date", COMMA, "end_date",
        COMMA, "status">>,
      <<>> }

StartFields == {<<"2026-01-02">>, <<"tbd">>}
EndFields == {<<"01/01/2026">>, <<"tbd">>}
StatusFields == {<<"SOLD">>, <<"bogus">>}

SampleLines ==
    { <<"AC-10D", COMMA>> \o s \o <<COMMA>> \o e \o <<COMMA>> \o st :
        s \in StartFields, e \in EndFields, st \in StatusFields }
    \cup { <<>>,
           <<"ZZ-99", COMMA, "2026-01-01", COMMA, "2026-01-02", COMMA, "hold">>,
           <<"ZZ-99", COMMA, "tbd", COMMA, "tbd", COMMA, "bogus">>,
           <<COMMA, "tbd", COMMA, "2026-01-03", COMMA, "sold">>,
           <<"AC-10D", COMMA, "2026-01-01">>,
           <<QUOTE, "AC-10D", QUOTE, COMMA, SPACE, "2026-01-01", COMMA,
             "2026-01-03", SPACE, COMMA, "Hold">>,
           <<QUOTE, "AC-10D", COMMA, "2026-01-01", COMMA, "2026-01-02", COMMA,
             "sold">>,
           <<"AC-11", COMMA, "2025-12-31", COMMA, "+020000-01-01", COMMA,
             "pending">> }

\* the valid headers that differ from the plain one in spelling or in columns
VariantHeaders ==
    { <<"ID", COMMA, SPACE, "From", COMMA, "To", SPACE, COMMA, "Status">>,
      <<"client", COMMA, "unit_id", COMMA, "start_date", COMMA, "end_date",
        COMMA, "status">> }

\* texts: header and data lines (one line fewer under a variant header), and
\* the same after a leading blank line
CsvTexts ==
    {<<>>} \cup
    { <<h>> \o body : h \in SampleHeaders \ VariantHeaders,
                      body \in SeqsUpTo(SampleLines, MaxRows) }
    \cup
    { <<h>> \o body : h \in VariantHeaders,
                      body \in SeqsUpTo(SampleLines, MaxRows - 1) }
    \cup
    { << <<SPACE>>, <<"unit_id", COMMA, "start_date", COMMA, "end_date", COMMA,
                      "status">> >> \o body :
        body \in SeqsUpTo(SampleLines, MaxRows - 1) }

CIdle ==
    /\ csvText = <<>>
    /\ csvResult = Null

CInit ==
    /\ csvText \in CsvTexts
    /\ csvResult = Null

CallParseCSV ==
    /\ csvResult = Null
    /\ csvResult' = Some(parseCSV(csvText, unitIds, tz))
    /\ UNCHANGED <<csvText, tz>>

CNext == CallParseCSV /\ UNCHANGED <<qVars, gVars, nVars, sVars, pVars, fVars, tVars, aVars>>

----------------------------------------------------------------------------
(* normalizeDate calls on arbitrary date strings *)

\* normalizeDate as a function from strings to strings
normalizeDateString(s, zone) == <<dateString(normalizeDate(s, zone))>>

DateInputs ==
    {<<t>> : t \in IsoDates} \cup
    {<<UsDates[d]>> : d \in 1..Len(UsDates)} \cup
    {<<"tbd">>, <<>>}

NIdle ==
    /\ nInput = <<>>
    /\ nOnce = Null
    /\ nTwice = Null

NInit ==
    /\ nInput \in DateInputs
    /\ nOnce = Null
    /\ nTwice = Null

\* normalizeDate(x) for an x that isValidDate accepts
CallNormalizeDate ==
    /\ nOnce = Null
    /\ isValidDate(nInput, tz)
    /\ nOnce' = Some(normalizeDateString(nInput, tz))
    /\ UNCHANGED <<nInput, nTwice>>

\* normalizeDate applied to the string it returned
CallNormalizeDateAgain ==
    /\ nOnce # Null
    /\ nTwice = Null
    /\ nTwice' = Some(normalizeDateString(nOnce[1], tz))
    /\ UNCHANGED <<nInput, nOnce>>

NNext ==
    \/ CallNormalizeDate /\ UNCHANGED <<qVars, gVars, cVars, sVars, pVars, fVars, tVars, tz, aVars>>
    \/ CallNormalizeDateAgain /\ UNCHANGED <<qVars, gVars, cVars, sVars, pVars, fVars, tVars, tz, aVars>>

----------------------------------------------------------------------------
(* The row splitter of parseCSV on arbitrary lines *)

LineTokens == {COMMA, QUOTE, SPACE, "a"}

SIdle ==
    /\ sLine = <<>>
    /\ sValues = Null

SInit ==
    /\ sLine \in SeqsUpTo(LineTokens, MaxLineLen)
    /\ sValues = Null

\* one pass of the row loop up to values.push(current.trim()): the line is
\* trimmed, an empty line is skipped, the rest is split
SplitLine ==
    /\ sValues = Null
    /\ trim(sLine) # <<>>
    /\ sValues' = Some(splitValues(trim(sLine), 1, <<>>, <<>>, FALSE))
    /\ UNCHANGED sLine

SNext == SplitLine /\ UNCHANGED <<qVars, gVars, cVars, nVars, pVars, fVars, tVars, tz, aVars>>

----------------------------------------------------------------------------
(* Repeated calls of the resolver and the gap finder on one entry.  Each   *)
(* function is synchronous: a call is one step.                            *)

PureDays == {0, WindowDays + 1}
PureInstants == {d * 24 + h : d \in PureDays, h \in Hours}

PureAvailInputs ==
    {Null} \cup
    {Some(UnitAvailability("u1", ps, 0)) :
        ps \in SeqsUpTo({p \in AvailabilityPeriod(PureDays) :
                            p.startDate <= p.endDate}, MaxPurePeriods)}

\* the calls: the date argument of the point query and of the gap finder,
\* the range of the two range queries
PureCalls ==
    {[op |-> o, at |-> i, from |-> 0, to |-> 0] :
        o \in {"current", "next"}, i \in PureInstants}
    \cup
    {[op |-> o, at |-> 0, from |-> a, to |-> b] :
        o \in {"range", "overlap"}, a \in PureDays, b \in PureDays}

\* what a call returns
resultOf(call, unitAvail, zone) ==
    CASE call.op = "current" -> getCurrentAvailability(unitAvail, call.at)
      [] call.op = "range" ->
            getAvailabilityForRange(unitAvail, call.from, call.to)
      [] call.op = "overlap" ->
            getOverlappingPeriods(unitAvail, call.from, call.to)
      [] call.op = "next" -> getNextAvailablePeriod(unitAvail, call.at, zone)

\* the entry object after a call: find, filter and for-of write nothing, the
\* gap finder sorts
entryAfter(call, unitAvail) ==
    IF call.op = "next" /\ unitAvail # Null /\ Len(unitAvail[1].periods) > 0
    THEN Some([unitAvail[1] EXCEPT !.periods = periodsAfterGapSearch(@)])
    ELSE unitAvail

PIdle ==
    /\ pAvail = Null
    /\ pCall = Null
    /\ pFirst = Null
    /\ pBetween = "none"
    /\ pAgain = Null
    /\ pPc = "idle"

PInit ==
    /\ pAvail \in PureAvailInputs
    /\ pCall = Null
    /\ pFirst = Null
    /\ pBetween = "none"
    /\ pAgain = Null
    /\ pPc = "ready"

CallFirst ==
    /\ pPc = "ready"
    /\ \E call \in PureCalls :
          /\ pCall' = Some(call)
          /\ pFirst' = Some(resultOf(call, pAvail, tz))
          /\ pAvail' = entryAfter(call, pAvail)
    /\ pPc' = "first"
    /\ UNCHANGED <<pBetween, pAgain>>

\* some call is made between the two; what it returns is not kept
CallBetween ==
    /\ pPc = "first"
    /\ \E call \in PureCalls :
          /\ pBetween' = call.op
          /\ pAvail' = entryAfter(call, pAvail)
    /\ pPc' = "between"
    /\ UNCHANGED <<pCall, pFirst, pAgain>>

\* the first call is made again with the same arguments
CallAgain ==
    /\ pPc \in {"first", "between"}
    /\ pAgain' = Some(resultOf(pCall[1], pAvail, tz))
    /\ pAvail' = entryAfter(pCall[1], pAvail)
    /\ pPc' = "again"
    /\ UNCHANGED <<pCall, pFirst, pBetween>>

PNext ==
    \/ CallFirst /\ UNCHANGED <<qVars, gVars, cVars, nVars, sVars, fVars, tVars, tz, aVars>>
    \/ CallBetween /\ UNCHANGED <<qVars, gVars, cVars, nVars, sVars, fVars, tVars, tz, aVars>>
    \/ CallAgain /\ UNCHANGED <<qVars, gVars, cVars, nVars, sVars, fVars, tVars, tz, aVars>>

----------------------------------------------------------------------------
(* The unit list of the sidebar (components/Sidebar) *)

\* inventoryData.units: id, market and type of each unit of the catalog
units ==
    { [id |-> <<"AC-10D">>, market |-> "DC", type |-> "digital"],
      [id |-> <<"AC-11">>, market |-> "Baltimore", type |-> "billboard"] }

\* currentPeriod?.status || null for availability.get(unitId)
getUnitStatus(unitId, registry, now) ==
    LET unitAvail == IF unitId \in DOMAIN registry
                     THEN Some(registry[unitId]) ELSE Null
        currentPeriod == getCurrentAvailability(unitAvail, now)
    IN  IF currentPeriod = Null THEN Null ELSE Some(currentPeriod[1].status)

passesAvailabilityFilterExact(status, filter) == status = Some(filter)

\* the callback of the availability filter
passesAvailabilityFilter(status, filter) ==
    IF filter = "available"
    THEN status = Some("available") \/ status = Null
    ELSE status = Some(filter)

\* the three filters in a row; the sort by distance that may follow changes
\* the order only, and the list is kept as the set of its units
filterUnits(all, market, type, status, registry, now) ==
    {u \in all :
        /\ market # "" => u.market = market
        /\ type # "" => u.type = type
        /\ status # "" =>
              passesAvailabilityFilter(getUnitStatus(u.id, registry, now), status)}

SbDays == {0, 1}
SbInstants == {d * 24 + h : d \in SbDays, h \in {0, 23}}
SbPeriods == {p \in AvailabilityPeriod(SbDays) : p.startDate <= p.endDate}

\* registries: the first unit with any entry of up to MaxSidebarPeriods
\* periods or none, the second with a one-day entry or none
SbRegistries ==
    LET first == {Null} \cup
                 {Some(UnitAvailability(<<"AC-10D">>, ps, 0)) :
                     ps \in SeqsUpTo(SbPeriods, MaxSidebarPeriods)}
        second == {Null} \cup
                  {Some(UnitAvailability(<<"AC-11">>,
                           <<[startDate |-> 0, endDate |-> 0, status |-> st]>>, 0)) :
                      st \in AvailabilityStatus}
    IN  { [u \in {e[1].unitId : e \in {a, b} \ {Null}} |->
              IF a # Null /\ u = a[1].unitId THEN a[1] ELSE b[1]] :
          a \in first, b \in second }

SbFilters ==
    { [market |-> "", type |-> ""], [market |-> "DC", type |-> ""],
      [market |-> "", type |-> "billboard"] }

FIdle ==
    /\ sbAvailability = EmptyMap
    /\ sbNow = 0
    /\ marketFilter = ""
    /\ typeFilter = ""
    /\ availabilityFilter = ""
    /\ filteredUnits = Null

FInit ==
    /\ sbAvailability \in SbRegistries
    /\ sbNow \in SbInstants
    /\ \E f \in SbFilters : marketFilter = f.market /\ typeFilter = f.type
    /\ availabilityFilter \in {""} \cup AvailabilityStatus
    /\ filteredUnits = Null

\* a render of the Sidebar
RenderSidebar ==
    /\ filteredUnits = Null
    /\ filteredUnits' = Some(filterUnits(units, marketFilter, typeFilter,
                                         availabilityFilter, sbAvailability,
                                         sbNow))
    /\ UNCHANGED <<sbAvailability, sbNow, marketFilter, typeFilter,
                   availabilityFilter>>

FNext == RenderSidebar /\ UNCHANGED <<qVars, gVars, cVars, nVars, sVars, pVars, tVars, tz, aVars>>

----------------------------------------------------------------------------
(* The selection (app/page) *)

toggledAddOnly(prev, unitId) == prev \cup {unitId}

\* the updater of handleToggleSelect: a copy of prev with unitId deleted if
\* present, added if not
toggled(prev, unitId) ==
    IF unitId \in prev THEN prev \ {unitId} ELSE prev \cup {unitId}

TIdle ==
    /\ selectedIds = {}
    /\ toggleCount = [u \in unitIds |-> 0]
    /\ lastToggled = <<>>
    /\ selectedBefore = <<>>

\* useState<Set<string>>(new Set())
TInit ==
    /\ selectedIds = {}
    /\ toggleCount = [u \in unitIds |-> 0]
    /\ lastToggled = <<>>
    /\ selectedBefore = <<>>

HandleToggleSelect ==
    \E unitId \in unitIds :
        /\ toggleCount[unitId] < MaxToggles
        /\ selectedIds' = toggled(selectedIds, unitId)
        /\ toggleCount' = [toggleCount EXCEPT ![unitId] = @ + 1]
        /\ lastToggled' =
              IF lastToggled = <<>> THEN <<unitId>>
              ELSE <<unitId, lastToggled[1]>>
        /\ selectedBefore' =
              IF selectedBefore = <<>> THEN <<selectedIds>>
              ELSE <<selectedIds, selectedBefore[1]>>

TNext == HandleToggleSelect /\ UNCHANGED <<qVars, gVars, cVars, nVars, sVars, pVars, fVars, tz, aVars>>

----------------------------------------------------------------------------
(* The import dialog and the registry                                      *)
(* (components/AvailabilityImport, app/page)                               *)

\* the files the user can pick: name, whether the drop handler takes it for
\* a CSV file, whether text() resolves, and the text
Files ==
    { [name |-> "flights.csv", csv |-> TRUE, readable |-> TRUE, text |->
         << <<"unit_id", COMMA, "start_date", COMMA, "end_date", COMMA, "status">>,
            <<"AC-10D", COMMA, "2026-01-01", COMMA, "2026-01-02", COMMA, "sold">>,
            <<"AC-10D", COMMA, "01/03/2026", COMMA, "2026-01-03", COMMA, "Hold">> >>],
      [name |-> "update.csv", csv |-> TRUE, readable |-> TRUE, text |->
         << <<"ID", COMMA, "From", COMMA, "To", COMMA, "Status">>,
            <<"AC-11", COMMA, "2026-01-01", COMMA, "2026-01-03", COMMA, "pending">>,
            <<"AC-10D", COMMA, "2026-01-02", COMMA, "01/01/2026", COMMA, "available">> >>],
      [name |-> "typos.csv", csv |-> TRUE, readable |-> TRUE, text |->
         << <<"unit_id", COMMA, "start_date", COMMA, "end_date", COMMA, "status">>,
            <<"AC-11", COMMA, "2026-01-02", COMMA, "2026-01-03", COMMA, "sold">>,
            <<"ZZ-99", COMMA, "2026-01-01", COMMA, "2026-01-03", COMMA, "hold">> >>],
      [name |-> "notes.txt", csv |-> FALSE, readable |-> TRUE, text |->
         << <<"unit_id", COMMA, "start_date", COMMA, "end_date">>,
            <<"AC-10D", COMMA, "2026-01-01", COMMA, "2026-01-02">> >>],
      [name |-> "gone.csv", csv |-> TRUE, readable |-> FALSE, text |-> <<>>] }

FileNames == {f.name : f \in Files}
FileNamed(n) == CHOOSE f \in Files : f.name = n

\* const period = {startDate, endDate, status, ...} of handleImport
periodOfRow(row) ==
    [startDate |-> row.startDate, endDate |-> row.endDate, status |-> row.status]

\* parsedData.forEach(row => ...) of handleImport, from position k on
RECURSIVE availabilityMapFrom(_, _, _, _)
availabilityMapFrom(rows, k, map, now) ==
    IF k > Len(rows) THEN map
    ELSE LET row == rows[k]
             period == periodOfRow(row)
         IN  IF row.unitId \in DOMAIN map
             THEN availabilityMapFrom(rows, k + 1,
                    [map EXCEPT ![row.unitId].periods = Append(@, period)], now)
             ELSE availabilityMapFrom(rows, k + 1,
                    [u \in DOMAIN map \cup {row.unitId} |->
                        IF u = row.unitId
                        THEN UnitAvailability(row.unitId, <<period>>, now)
                        ELSE map[u]],
                    now)

mergeImportedOnly(prev, imported) == imported

\* handleAvailabilityImport: new Map(prev), then merged.set(key, value)
mergeImported(prev, imported) ==
    [u \in DOMAIN prev \cup DOMAIN imported |->
        IF u \in DOMAIN imported THEN imported[u] ELSE prev[u]]

prevAfterMergeInPlace(prev, imported) == mergeImported(prev, imported)

\* the Map object prev after handleAvailabilityImport: the merge writes to
\* the copy made by new Map(prev), never to prev
prevAfterMerge(prev, imported) == prev

AIdle ==
    /\ availability = EmptyMap
    /\ reader = Null
    /\ isAvailImportOpen = FALSE
    /\ file = Null
    /\ parsedData = <<>>
    /\ errors = <<>>
    /\ isProcessing = FALSE
    /\ reads = <<>>
    /\ imports = 0

\* the state of a dialog that is not mounted, and of one just mounted
dialogInitial ==
    /\ file' = Null
    /\ parsedData' = <<>>
    /\ errors' = <<>>
    /\ isProcessing' = FALSE
    /\ reads' = <<>>

\* onOpenAvailImport: the dialog is mounted with its initial state
OpenAvailImport ==
    /\ ~ isAvailImportOpen
    /\ isAvailImportOpen' = TRUE
    /\ dialogInitial
    /\ UNCHANGED <<availability, reader, imports>>

\* handleFile up to the await of selectedFile.text()
handleFileStart(n) ==
    /\ Len(reads) < MaxReads
    /\ file' = Some(n)
    /\ isProcessing' = TRUE
    /\ errors' = <<>>
    /\ parsedData' = <<>>
    /\ reads' = Append(reads, n)

HandleFileSelect ==
    /\ isAvailImportOpen
    /\ \E n \in FileNames : handleFileStart(n)
    /\ UNCHANGED <<availability, reader, isAvailImportOpen, imports>>

HandleDrop ==
    /\ isAvailImportOpen
    /\ \E n \in FileNames :
          IF FileNamed(n).csv
          THEN handleFileStart(n)
          ELSE /\ errors' = <<ParseError(0, "Please upload a CSV file", <<>>)>>
               /\ UNCHANGED <<file, parsedData, isProcessing, reads>>
    /\ UNCHANGED <<availability, reader, isAvailImportOpen, imports>>

RemoveAt(s, k) == SubSeq(s, 1, k - 1) \o SubSeq(s, k + 1, Len(s))

\* parseCSV(text) for the text of each file, in each environment
parsedText ==
    [n \in FileNames |->
        [zone \in Zones |-> parseCSV(FileNamed(n).text, unitIds, zone)]]

shownAfterReadRowsOnly(result, rows, errs) ==
    IF result = Thrown
    THEN [parsedData |-> rows,
          errors |-> <<ParseError(0, "Failed to read file", <<>>)>>]
    ELSE [parsedData |-> result.rows, errors |-> errs]

\* parsedData and errors after the try block: setParsedData(rows) and
\* setErrors(errors), or the catch when parseCSV threw
shownAfterRead(result, rows, errs) ==
    IF result = Thrown
    THEN [parsedData |-> rows,
          errors |-> <<ParseError(0, "Failed to read file", <<>>)>>]
    ELSE [parsedData |-> result.rows, errors |-> result.errors]

\* handleFile after the await: text() resolved; the try block also holds
\* the call of parseCSV
ReadResolved ==
    /\ isAvailImportOpen
    /\ \E k \in 1..Len(reads) :
        /\ FileNamed(reads[k]).readable
        /\ LET result == parsedText[reads[k]][tz]
               after == shownAfterRead(result, parsedData, errors)
           IN  /\ parsedData' = after.parsedData
               /\ errors' = after.errors
        /\ isProcessing' = FALSE
        /\ reads' = RemoveAt(reads, k)
    /\ UNCHANGED <<availability, reader, isAvailImportOpen, file, imports>>

\* handleFile after the await: text() rejected
ReadRejected ==
    /\ isAvailImportOpen
    /\ \E k \in 1..Len(reads) :
        /\ ~ FileNamed(reads[k]).readable
        /\ errors' = <<ParseError(0, "Failed to read file", <<>>)>>
        /\ isProcessing' = FALSE
        /\ reads' = RemoveAt(reads, k)
    /\ UNCHANGED <<availability, reader, isAvailImportOpen, file, parsedData, imports>>

importDisabledNoRows == Len(parsedData) = 0

\* disabled={parsedData.length === 0 || errors.length > 0}
importDisabled == Len(parsedData) = 0 \/ Len(errors) > 0

\* the Import button: handleImport, onImport (handleAvailabilityImport)
\* and onClose
HandleImport ==
    /\ isAvailImportOpen
    /\ ~ importDisabled
    /\ imports < MaxImports
    /\ LET now == imports + 1
           availabilityMap == availabilityMapFrom(parsedData, 1, EmptyMap, now)
       IN  /\ availability' = mergeImported(availability, availabilityMap)
           /\ reader' =
                 IF reader # Null /\ reader[1].id = imports
                 THEN Some([reader[1] EXCEPT
                              !.now = prevAfterMerge(availability, availabilityMap)])
                 ELSE reader
    /\ imports' = imports + 1
    /\ isAvailImportOpen' = FALSE
    /\ dialogInitial

\* Cancel or the close button: the dialog is unmounted and its state is
\* gone; reads still in flight complete into the unmounted component and
\* change nothing
CloseAvailImport ==
    /\ isAvailImportOpen
    /\ isAvailImportOpen' = FALSE
    /\ dialogInitial
    /\ UNCHANGED <<availability, reader, imports>>

\* a render hands the registry to a component (availability={availability}):
\* the component holds the Map object that is the registry at this moment,
\* the one made by the latest merge
HandRegistryToReader ==
    /\ reader = Null
    /\ ~ isAvailImportOpen
    /\ reader' = Some([id |-> imports, seen |-> availability, now |-> availability])
    /\ UNCHANGED <<availability, isAvailImportOpen, dVars, imports>>

AInit ==
    /\ availability = EmptyMap
    /\ reader = Null
    /\ isAvailImportOpen = FALSE
    /\ file = Null
    /\ parsedData = <<>>
    /\ errors = <<>>
    /\ isProcessing = FALSE
    /\ reads = <<>>
    /\ imports = 0

ANext ==
    \/ OpenAvailImport /\ UNCHANGED <<qVars, gVars, cVars, nVars, sVars, pVars, fVars, tVars, tz>>
    \/ HandleFileSelect /\ UNCHANGED <<qVars, gVars, cVars, nVars, sVars, pVars, fVars, tVars, tz>>
    \/ HandleDrop /\ UNCHANGED <<qVars, gVars, cVars, nVars, sVars, pVars, fVars, tVars, tz>>
    \/ ReadResolved /\ UNCHANGED <<qVars, gVars, cVars, nVars, sVars, pVars, fVars, tVars, tz>>
    \/ ReadRejected /\ UNCHANGED <<qVars, gVars, cVars, nVars, sVars, pVars, fVars, tVars, tz>>
    \/ HandleImport /\ UNCHANGED <<qVars, gVars, cVars, nVars, sVars, pVars, fVars, tVars, tz>>
    \/ CloseAvailImport /\ UNCHANGED <<qVars, gVars, cVars, nVars, sVars, pVars, fVars, tVars, tz>>
    \/ HandRegistryToReader /\ UNCHANGED <<qVars, gVars, cVars, nVars, sVars, pVars, fVars, tVars, tz>>

----------------------------------------------------------------------------
(* Specifications *)

QueryInit == QInit /\ GIdle /\ CIdle /\ NIdle /\ SIdle /\ PIdle /\ FIdle /\ TIdle /\ tz = UTC /\ AIdle

QuerySpec == QueryInit /\ [][QNext]_vars

GapInit == GInit /\ QIdle /\ CIdle /\ NIdle /\ SIdle /\ PIdle /\ FIdle /\ TIdle /\ tz \in Zones /\ AIdle

GapSpec == GapInit /\ [][GNext]_vars

CsvInit == CInit /\ tz \in Zones /\ QIdle /\ GIdle /\ NIdle /\ SIdle /\ PIdle /\ FIdle /\ TIdle /\ AIdle

CsvSpec == CsvInit /\ [][CNext]_vars

Init == AInit /\ tz \in Zones /\ QIdle /\ GIdle /\ CIdle /\ NIdle /\ SIdle /\ PIdle /\ FIdle /\ TIdle

Next == ANext

Spec == Init /\ [][Next]_vars

NormInit == NInit /\ tz \in Zones /\ QIdle /\ GIdle /\ CIdle /\ SIdle /\ PIdle /\ FIdle /\ TIdle /\ AIdle

NormSpec == NormInit /\ [][NNext]_vars

SplitInit == SInit /\ tz = UTC /\ QIdle /\ GIdle /\ CIdle /\ NIdle /\ PIdle /\ FIdle /\ TIdle /\ AIdle

SplitSpec == SplitInit /\ [][SNext]_vars

PureInit == PInit /\ tz \in Zones /\ QIdle /\ GIdle /\ CIdle /\ NIdle /\ SIdle /\ FIdle /\ TIdle /\ AIdle

PureSpec == PureInit /\ [][PNext]_vars

SidebarInit == FInit /\ tz = UTC /\ QIdle /\ GIdle /\ CIdle /\ NIdle /\ SIdle /\ PIdle /\ TIdle /\ AIdle

SidebarSpec == SidebarInit /\ [][FNext]_vars

SelectInit == TInit /\ tz = UTC /\ QIdle /\ GIdle /\ CIdle /\ NIdle /\ SIdle /\ PIdle /\ FIdle /\ AIdle

SelectSpec == SelectInit /\ [][TNext]_vars

\* the loop is ordinary sequential code: a started call keeps running
GapFairSpec == GapSpec /\ WF_vars(GNext)

----------------------------------------------------------------------------
(* Properties of the resolver *)

qPeriods == IF qAvail = Null THEN <<>> ELSE qAvail[1].periods

Severity(status) ==
    CASE status = "sold" -> 4
      [] status = "hold" -> 3
      [] status = "pending" -> 2
      [] status = "available" -> 1

\* C2: for a unit with no entry, or an entry without periods, the point
\* query answers null for every date and the range query answers
\* 'available' for every range.
C2_NoDataDefaults ==
    (qAvail = Null \/ Len(qAvail[1].periods) = 0) =>
        /\ qOp = "current" => qCurrent = Null
        /\ qOp = "range" => qRange = "available"

C2_Witness ==
    /\ qAvail = Null
    /\ qOp = "current"
    /\ qDate = MaxDay * 24 + 23

\* C3: the point query returns the period at the smallest list position
\* among those whose inclusive interval contains the date, and null exactly
\* when no period contains it.
C3_FirstMatch ==
    qOp = "current" =>
        LET d == toISODate(qDate)
            inside(i) == qPeriods[i].startDate <= d /\ d <= qPeriods[i].endDate
        IN  /\ qCurrent = Null <=> ~ \E i \in 1..Len(qPeriods) : inside(i)
            /\ qCurrent # Null =>
                  \E i \in 1..Len(qPeriods) :
                      /\ inside(i)
                      /\ \A j \in 1..(i - 1) : ~ inside(j)
                      /\ qCurrent[1] = qPeriods[i]

C3_Witness ==
    /\ qOp = "current"
    /\ Len(qPeriods) = 2
    /\ qPeriods[1].status = "available"
    /\ qPeriods[2].status = "sold"
    /\ \A i \in 1..2 : /\ qPeriods[i].startDate <= toISODate(qDate)
                       /\ toISODate(qDate) <= qPeriods[i].endDate
    /\ qCurrent = Some(qPeriods[1])

\* C4: the range query returns the status of maximum severity
\* (sold > hold > pending > available) among the periods that overlap the
\* inclusive range, and 'available' when none overlaps; an overlapping sold
\* period forces 'sold'.
C4_WorstStatusWins ==
    qOp = "range" =>
        LET over == {i \in 1..Len(qPeriods) :
                        /\ qPeriods[i].startDate <= qEnd
                        /\ qPeriods[i].endDate >= qStart}
        IN  /\ over = {} => qRange = "available"
            /\ over # {} =>
                  /\ \E i \in over : qRange = qPeriods[i].status
                  /\ \A i \in over :
                        Severity(qRange) >= Severity(qPeriods[i].status)
            /\ (\E i \in over : qPeriods[i].status = "sold") => qRange = "sold"

C4_Witness ==
    /\ qOp = "range"
    /\ Len(qPeriods) = 2
    /\ qPeriods[1].status = "hold"
    /\ qPeriods[1].startDate <= qEnd /\ qPeriods[1].endDate >= qStart
    /\ qPeriods[2].status = "sold"
    /\ qPeriods[2].startDate < qPeriods[2].endDate
    /\ qPeriods[2].endDate = qStart

----------------------------------------------------------------------------
(* Properties of the gap finder *)

gPeriods == IF gAvail = Null THEN <<>> ELSE gAvail[1].periods

\* some sold or hold period of the unit overlaps the window [from, to]
Blocked(from, to) ==
    \E i \in 1..Len(gPeriods) :
        /\ gPeriods[i].status \in {"sold", "hold"}
        /\ gPeriods[i].startDate <= to
        /\ gPeriods[i].endDate >= from

\* C5: the window returned by getNextAvailablePeriod overlaps no sold or
\* hold period of the unit, for every period list and every searchFrom.
C5_WindowIsFree ==
    gpc = "done" => ~ Blocked(gResult[1].startDate, gResult[1].endDate)

\* C6: no date from searchFrom up to the day before the returned start
\* begins a 28-day window free of sold and hold periods.
C6_EarliestWindow ==
    gpc = "done" =>
        \A d \in toISODate(startFrom)..(gResult[1].startDate - 1) :
            Blocked(d, d + 27)

\* C7: without sold or hold periods (no entry, no periods, or only pending
\* and available ones) the returned window is searchFrom .. searchFrom + 27.
C7_NoBlockingPeriods ==
    (gpc = "done"
        /\ \A i \in 1..Len(gPeriods) :
              gPeriods[i].status \in {"pending", "available"}) =>
        gResult = Some([startDate |-> toISODate(startFrom),
                        endDate |-> toISODate(startFrom) + 27])

\* C8: every call of getNextAvailablePeriod returns, and returns a window
\* that starts on or after searchFrom and ends exactly 27 days after its
\* start.
C8_ReturnsWellFormedWindow ==
    /\ <>(gpc = "done")
    /\ [](gpc = "done" =>
            /\ gResult # Null
            /\ gResult[1].startDate >= toISODate(startFrom)
            /\ gResult[1].endDate = gResult[1].startDate + 27)

----------------------------------------------------------------------------
(* Properties of parseCSV *)

csvLines == trimmedLines(csvText)
csvHeader == headerCells(csvLines[1])

\* a header that has no cell for one of the four required columns
LacksColumn(header) ==
    \E names \in {unitIdNames, startNames, endNames, statusNames} :
        \A c \in 1..Len(header) : header[c] \notin names

\* the 0-based indices of the data lines that are not blank
DataLines(lines) == {i \in 1..(Len(lines) - 1) : trim(lines[i + 1]) # <<>>}

\* the numbers of the checks that a data line fails, each taken on its own
FailedChecks(line, header) ==
    LET cols == columns(header)
        v == splitValues(trim(line), 1, <<>>, <<>>, FALSE)
        unit == valueAt(v, cols.unitIdIdx)
        start == valueAt(v, cols.startIdx)
        end == valueAt(v, cols.endIdx)
        stat == valueAt(v, cols.statusIdx)
    IN  {k \in 1..5 :
            \/ k = 1 /\ isFalsy(unit)
            \/ k = 2 /\ (isFalsy(unit) \/ unit[1] \notin unitIds)
            \/ k = 3 /\ (isFalsy(start) \/ newDate(start[1], tz) = Null)
            \/ k = 4 /\ (isFalsy(end) \/ newDate(end[1], tz) = Null)
            \/ k = 5 /\ (stat = Null
                          \/ toLowerCase(stat[1]) \notin
                               {<<"available">>, <<"sold">>, <<"hold">>,
                                <<"pending">>})}

CheckMessage ==
    <<"Missing unit ID", "Unknown unit ID: ", "Invalid start date: ",
      "Invalid end date: ", "Invalid status: ">>

\* C9: a data row is validated in the order unit id present, unit id known,
\* start date, end date, status; a row failing several checks contributes
\* exactly one error, that of its first failing check, and no validated row.
C9_FirstFailureOnly ==
    csvResult # Null =>
        LET lines == csvLines
            header == headerCells(lines[1])
            data == DataLines(lines)
            failed == [i \in data |-> FailedChecks(lines[i + 1], header)]
            rows == csvResult[1].rows
            found == csvResult[1].errors
        IN  ~ LacksColumn(header) =>
            /\ \A i \in data :
                  LET own == {e \in 1..Len(found) : found[e].row = i + 1}
                  IN  IF failed[i] = {} THEN own = {}
                      ELSE /\ Cardinality(own) = 1
                           /\ \A e \in own :
                                 found[e].message =
                                    CheckMessage[CHOOSE k \in failed[i] :
                                                    \A m \in failed[i] : k <= m]
            /\ Len(rows) = Cardinality({i \in data : failed[i] = {}})

C9_Witness ==
    /\ csvResult # Null
    /\ ~ LacksColumn(csvHeader)
    /\ \E i \in DataLines(csvLines) :
          FailedChecks(csvLines[i + 1], csvHeader) = {3, 4, 5}
    /\ \E i \in DataLines(csvLines) :
          FailedChecks(csvLines[i + 1], csvHeader) = {2, 3, 4, 5}

\* C10: when the header lacks a required column, parseCSV returns no rows
\* and exactly one error, whatever data rows follow.
C10_HeaderAborts ==
    (csvResult # Null /\ LacksColumn(csvHeader)) =>
        /\ csvResult[1].rows = <<>>
        /\ Len(csvResult[1].errors) = 1

C10_Witness ==
    /\ csvResult # Null
    /\ LacksColumn(csvHeader)
    /\ csvHeader # << <<>> >>
    /\ Cardinality(DataLines(csvLines)) >= 2

----------------------------------------------------------------------------
(* Properties of the import *)

\* the periods that the rows of an import hold for unit u, in row order
importedPeriods(rows, u) ==
    LET own == SelectSeq(rows, LAMBDA r : r.unitId = u)
    IN  [k \in 1..Len(own) |->
            [startDate |-> own[k].startDate, endDate |-> own[k].endDate,
             status |-> own[k].status]]

\* C1: when an import with n periods for a unit is merged into a registry
\* that has an entry with m periods for it, the entry afterwards holds the
\* m old periods followed by the n new ones.
C1_MergeAppends ==
    [][availability' # availability =>
          \A u \in DOMAIN availability :
              importedPeriods(parsedData, u) # <<>> =>
                  /\ u \in DOMAIN availability'
                  /\ availability'[u].periods =
                        availability[u].periods \o importedPeriods(parsedData, u)
      ]_vars

----------------------------------------------------------------------------
(* Properties of the errors shown by the dialog *)

\* the messages of the errors that concern the file as a whole
FileMessages == {"Failed to read file", "Please upload a CSV file"}
HeaderMessage == headerError.message

\* C11 (as stated): whole-file errors (missing required columns, unreadable
\* file, not a CSV file) have row 0, and only errors tied to a row have a
\* row number of at least 1.
C11_StructuralRowZero ==
    \A k \in 1..Len(errors) :
        IF errors[k].message \in FileMessages \cup {HeaderMessage}
        THEN errors[k].row = 0
        ELSE errors[k].row >= 1

\* C11 (amended): the unreadable-file and not-a-CSV-file errors have row 0;
\* the missing-required-columns error has row 1, the line of the header;
\* every other error has the row number of a data line, at least 2.
C11_HeaderErrorRowOne ==
    \A k \in 1..Len(errors) :
        CASE errors[k].message \in FileMessages -> errors[k].row = 0
          [] errors[k].message = HeaderMessage -> errors[k].row = 1
          [] OTHER -> errors[k].row >= 2

C11_Witness ==
    /\ file = Some("notes.txt")
    /\ reads = <<>>
    /\ Len(errors) = 1
    /\ errors[1].message = HeaderMessage

----------------------------------------------------------------------------
(* Properties of the row numbers *)

\* the position in the text of the header: its first line that is not blank
HeaderAt == CHOOSE k \in 1..Len(csvText) :
                /\ ~ isBlank(csvText[k])
                /\ \A j \in 1..(k - 1) : isBlank(csvText[j])

\* the line that has row number r when the header is counted as row 1
RowLine(r) == csvText[HeaderAt + r - 1]

\* the unit id field of a data line
UnitField(line, header) ==
    valueAt(splitValues(trim(line), 1, <<>>, <<>>, FALSE),
            columns(header).unitIdIdx)

UnknownUnit(line, header) ==
    /\ ~ isBlank(line)
    /\ ~ isFalsy(UnitField(line, header))
    /\ UnitField(line, header)[1] \notin unitIds

\* C12: with a valid header, every error carries the line number of a line
\* that fails a check, the header counted as row 1 and blank lines counted;
\* a line with an unknown unit id yields one error at its row number, whose
\* message names that unit id, and no validated row.
C12_RowNumbers ==
    (csvResult # Null /\ ~ LacksColumn(csvHeader)) =>
        LET found == csvResult[1].errors
            last == Len(csvText) - HeaderAt + 1
        IN  /\ \A e \in 1..Len(found) :
                  /\ found[e].row \in 2..last
                  /\ ~ isBlank(RowLine(found[e].row))
                  /\ FailedChecks(RowLine(found[e].row), csvHeader) # {}
            /\ \A r \in 2..last :
                  UnknownUnit(RowLine(r), csvHeader) =>
                      /\ Cardinality({e \in 1..Len(found) : found[e].row = r}) = 1
                      /\ \E e \in 1..Len(found) :
                            /\ found[e].row = r
                            /\ found[e].message = "Unknown unit ID: "
                            /\ found[e].value = UnitField(RowLine(r), csvHeader)[1]
                      /\ \A k \in 1..Len(csvResult[1].rows) :
                            csvResult[1].rows[k].unitId #
                                UnitField(RowLine(r), csvHeader)[1]

C12_Witness ==
    /\ csvResult # Null
    /\ ~ LacksColumn(csvHeader)
    /\ Len(csvText) = 3
    /\ isBlank(csvText[2])
    /\ UnknownUnit(csvText[3], csvHeader)
    /\ Len(csvResult[1].errors) = 1
    /\ csvResult[1].errors[1].row = 3

----------------------------------------------------------------------------
(* Properties of the periods held *)

\* C13: every validated row shown by the dialog (the rows parseCSV emitted)
\* and every period held in the registry has startDate <= endDate.
C13_StartNotAfterEnd ==
    /\ \A k \in 1..Len(parsedData) :
          parsedData[k].startDate <= parsedData[k].endDate
    /\ \A u \in DOMAIN availability :
          \A k \in 1..Len(availability[u].periods) :
              availability[u].periods[k].startDate
                  <= availability[u].periods[k].endDate

\* C14: over every sequence of file selections, drops, read completions and
\* failures and button clicks, an import (the call of onImport) fires only
\* from a state of the dialog with no errors and at least one parsed row.
C14_ImportOnlyWhenClean ==
    [][imports' # imports => (errors = <<>> /\ parsedData # <<>>)]_vars

\* an import has fired after the dialog had shown errors for another file
C14_Witness ==
    /\ imports >= 1
    /\ availability # EmptyMap
    /\ isAvailImportOpen
    /\ errors # <<>>
    /\ parsedData # <<>>

----------------------------------------------------------------------------
(* Properties of parseCSV as a total function *)

\* the number of double quotes in a line
Quotes(line) == Cardinality({k \in 1..Len(line) : line[k] = QUOTE})

\* C15: for every text parseCSV returns a {rows, errors} value and does not
\* end in an exception; a header that lacks a required column and every
\* data line that fails a check is represented by an error record.
C15_NeverThrows ==
    csvResult # Null =>
        /\ csvResult[1] # Thrown
        /\ DOMAIN csvResult[1] = {"rows", "errors"}
        /\ LacksColumn(csvHeader) =>
              \E e \in 1..Len(csvResult[1].errors) :
                  csvResult[1].errors[e].message = HeaderMessage
        /\ ~ LacksColumn(csvHeader) =>
              \A i \in DataLines(csvLines) :
                  FailedChecks(csvLines[i + 1], csvHeader) # {} =>
                      \E e \in 1..Len(csvResult[1].errors) :
                          csvResult[1].errors[e].row = i + 1

\* a text with an unparseable date, a line with an unbalanced quote
C15_Witness ==
    /\ csvResult # Null
    /\ ~ LacksColumn(csvHeader)
    /\ Len(csvLines) = 3
    /\ Quotes(csvLines[2]) = 1
    /\ 3 \in FailedChecks(csvLines[3], csvHeader)
    /\ Len(csvResult[1].errors) = 2

----------------------------------------------------------------------------
(* Properties of the validated rows *)

\* the data lines that pass all five checks, in the order of the text
RECURSIVE PassingFrom(_, _, _)
PassingFrom(lines, header, i) ==
    IF i >= Len(lines) THEN <<>>
    ELSE IF ~ isBlank(lines[i + 1]) /\ FailedChecks(lines[i + 1], header) = {}
         THEN <<i>> \o PassingFrom(lines, header, i + 1)
         ELSE PassingFrom(lines, header, i + 1)

\* a date string of the form YYYY-MM-DD: a year from 0000 to 9999
FourDigitYear(day) == day >= -739982 /\ day < 2912443

\* C16: every validated row has a known unit id, one of the four lowercase
\* statuses and canonical YYYY-MM-DD dates; the lines that pass all five
\* checks yield one validated row each, in order, and no error.
C16_ValidatedRows ==
    (csvResult # Null /\ ~ LacksColumn(csvHeader)) =>
        LET rows == csvResult[1].rows
            found == csvResult[1].errors
            passing == PassingFrom(csvLines, csvHeader, 1)
        IN  /\ \A k \in 1..Len(rows) :
                  /\ rows[k].unitId \in unitIds
                  /\ rows[k].status \in {"available", "sold", "hold", "pending"}
                  /\ FourDigitYear(rows[k].startDate)
                  /\ FourDigitYear(rows[k].endDate)
            /\ Len(rows) = Len(passing)
            /\ \A k \in 1..Len(passing) :
                  /\ rows[k].unitId = UnitField(csvLines[passing[k] + 1], csvHeader)[1]
                  /\ \A e \in 1..Len(found) : found[e].row # passing[k] + 1

----------------------------------------------------------------------------
(* Properties of normalizeDate *)

\* the date strings in the canonical form YYYY-MM-DD
CanonicalDates ==
    {<<"2025-12-31">>, <<"2026-01-01">>, <<"2026-01-02">>, <<"2026-01-03">>}

\* C17: for every string that isValidDate accepts, normalizing the
\* normalized string gives the normalized string again, and a string already
\* in the form YYYY-MM-DD is returned unchanged.
C17_NormalizeIdempotent ==
    /\ nTwice # Null => nTwice = nOnce
    /\ (nOnce # Null /\ nInput \in CanonicalDates) => nOnce = Some(nInput)

\* a date written MM/DD/YYYY, normalized twice east of UTC
C17_Witness ==
    /\ nInput = <<"01/02/2026">>
    /\ tz = EastOfUTC
    /\ nOnce = Some(<<"2026-01-01">>)
    /\ nTwice # Null

----------------------------------------------------------------------------
(* Properties of the merge *)

\* the unit ids that occur in the rows of an import
BatchUnits(rows) == {rows[k].unitId : k \in 1..Len(rows)}

\* C18: an import leaves the entry of every unit that is not in the batch
\* as it was (same periods, same lastUpdated) and removes no unit: the key
\* set of the registry only grows.
C18_OtherUnitsUntouched ==
    [][\A u \in DOMAIN availability :
          /\ u \in DOMAIN availability'
          /\ u \notin BatchUnits(parsedData) => availability'[u] = availability[u]
      ]_vars

\* after an import for both units, a later import for AC-10D alone has left
\* the entry of AC-11 as it was
C18_Witness ==
    /\ DOMAIN availability = {<<"AC-10D">>, <<"AC-11">>}
    /\ availability[<<"AC-11">>].lastUpdated = 1
    /\ availability[<<"AC-10D">>].lastUpdated = 2

\* the entries that handleImport builds for the units of a batch
BatchEntries(rows) ==
    [u \in BatchUnits(rows) |-> importedPeriods(rows, u)]

----------------------------------------------------------------------------
(* Properties of the rows taken one by one *)

\* what parseCSV returns for the header and the one data line of index i
AloneAt(i) == parseCSV(<<csvLines[1], csvLines[i + 1]>>, unitIds, tz)

\* the rows, and the errors renumbered to their own lines, that the data
\* lines from index i on give when each is parsed alone; oneEach tells
\* whether every non-blank line among them gave one row or one error
RECURSIVE AloneFrom(_)
AloneFrom(i) ==
    IF i >= Len(csvLines)
    THEN [rows |-> <<>>, errors |-> <<>>, oneEach |-> TRUE]
    ELSE LET alone == AloneAt(i)
             rest == AloneFrom(i + 1)
         IN  [rows |-> alone.rows \o rest.rows,
              errors |-> [e \in 1..Len(alone.errors) |->
                             [alone.errors[e] EXCEPT !.row = i + 1]]
                         \o rest.errors,
              oneEach |-> /\ rest.oneEach
                          /\ i \in DataLines(csvLines) =>
                                 Len(alone.rows) + Len(alone.errors) = 1]

\* C20: with a valid header every non-blank data line gives exactly one
\* validated row or exactly one error, so rows and errors together are as
\* many as the non-blank data lines; and what a line gives is what it gives
\* when parsed alone under the same header.
C20_RowsIndependent ==
    (csvResult # Null /\ ~ LacksColumn(csvHeader)) =>
        LET each == AloneFrom(1)
        IN  /\ each.oneEach
            /\ Len(csvResult[1].rows) + Len(csvResult[1].errors)
                  = Cardinality(DataLines(csvLines))
            /\ csvResult[1].rows = each.rows
            /\ csvResult[1].errors = each.errors

\* a failing line followed by a passing one
C20_Witness ==
    /\ csvResult # Null
    /\ ~ LacksColumn(csvHeader)
    /\ tz = EastOfUTC
    /\ Len(csvLines) = 3
    /\ Len(csvResult[1].errors) = 1
    /\ csvResult[1].errors[1].row = 2
    /\ Len(csvResult[1].rows) = 1


----------------------------------------------------------------------------
(* Properties of the cursor *)

\* C21: during the walk the cursor never moves backward: each step of the
\* loop leaves checkDate unchanged or advances it to the day after the end
\* of the period at hand, an end that is at or after the cursor; this for
\* overlapping and nested sold/hold periods too.
C21_CursorNeverBackward ==
    [][gpc = "loop" =>
          \/ checkDate' = checkDate
          \/ /\ checkDate' > checkDate
             /\ gi <= Len(sortedPeriods)
             /\ DateOfString(sortedPeriods[gi].endDate) >= checkDate
             /\ toISODate(checkDate') = sortedPeriods[gi].endDate + 1]_vars


----------------------------------------------------------------------------
(* Properties of the blocking statuses *)

\* the entry with every pending and available period removed
soldAndHoldOnly(unitAvail) ==
    IF unitAvail = Null THEN Null
    ELSE Some([unitAvail[1] EXCEPT
                 !.periods = SelectSeq(@, LAMBDA p : p.status \in {"sold", "hold"})])

\* C22: only sold and hold periods block: the window returned for a period
\* list is the window returned for the same list without its pending and
\* available periods, for every searchFrom.
C22_OnlySoldAndHoldBlock ==
    gpc = "done" =>
        gResult = Some(getNextAvailablePeriod(soldAndHoldOnly(gAvail), startFrom, tz))

\* a pending period in the way of the window, which is returned all the same
C22_Witness ==
    /\ gpc = "done"
    /\ Len(gPeriods) = 2
    /\ gPeriods[1].status = "pending"
    /\ gPeriods[2].status = "sold"
    /\ gPeriods[1].startDate <= toISODate(startFrom)
    /\ gPeriods[1].endDate > toISODate(startFrom)
    /\ gPeriods[2].startDate > gPeriods[1].endDate
    /\ gResult[1].startDate = toISODate(startFrom)


----------------------------------------------------------------------------
(* Properties of the row splitter *)

\* the line the splitter runs on
sTrimmed == trim(sLine)

\* position k of the line is outside quotes: an even number of quotes
\* comes before it
OutsideQuotes(line, k) ==
    Cardinality({j \in 1..(k - 1) : line[j] = QUOTE}) % 2 = 0

\* the positions of the commas that are outside quotes, in order
Separators(line) ==
    {k \in 1..Len(line) : line[k] = COMMA /\ OutsideQuotes(line, k)}

\* the f-th field of the line: what lies between the (f-1)-th and the f-th
\* separator
FieldOf(line, f) ==
    LET seps == Separators(line)
        before == IF f = 1 THEN 0
                  ELSE CHOOSE k \in seps :
                          Cardinality({j \in seps : j < k}) = f - 2
        after == IF f = Cardinality(seps) + 1 THEN Len(line) + 1
                 ELSE CHOOSE k \in seps :
                         Cardinality({j \in seps : j < k}) = f - 1
    IN  SubSeq(line, before + 1, after - 1)

\* C23: a comma splits fields only outside quotes, each quote toggling
\* between inside and outside: a line with balanced quotes yields one field
\* more than it has commas outside quotes, every field is the text between
\* two such commas without its quotes and trimmed (so a quoted field keeps
\* its commas), and no value contains a quote.
C23_QuoteAwareSplit ==
    sValues # Null =>
        LET line == sTrimmed
            values == sValues[1]
            quotes == Cardinality({k \in 1..Len(line) : line[k] = QUOTE})
        IN  /\ \A f \in 1..Len(values) :
                  \A k \in 1..Len(values[f]) : values[f][k] # QUOTE
            /\ quotes % 2 = 0 =>
                  /\ Len(values) = 1 + Cardinality(Separators(line))
                  /\ \A f \in 1..Len(values) :
                        values[f] = trim(SelectSeq(FieldOf(line, f),
                                                   LAMBDA t : t # QUOTE))

\* the quoted field "a,a" split as one value
C23_Witness ==
    /\ sLine = <<QUOTE, "a", COMMA, "a", QUOTE>>
    /\ sValues = Some(<< <<"a", COMMA, "a">> >>)


----------------------------------------------------------------------------
(* Properties of repeated calls *)

----------------------------------------------------------------------------
(* Properties of the sidebar list *)

\* the status of the first period of the unit's entry that contains today,
\* null when the unit has no entry or no period contains today
CurrentStatus(unitId) ==
    IF unitId \notin DOMAIN sbAvailability THEN Null
    ELSE LET ps == sbAvailability[unitId].periods
             today == toISODate(sbNow)
             hits == {i \in 1..Len(ps) :
                         ps[i].startDate <= today /\ today <= ps[i].endDate}
         IN  IF hits = {} THEN Null
             ELSE Some(ps[CHOOSE i \in hits : \A j \in hits : i <= j].status)

\* the units that the market and type filters let through
PassOtherFilters ==
    {u \in units : /\ marketFilter # "" => u.market = marketFilter
                   /\ typeFilter # "" => u.type = typeFilter}

\* C25: with the filter 'available' a unit is listed iff its current status
\* is 'available' or null, so a unit without an entry is listed under
\* 'available' and never under 'sold', 'hold' or 'pending'; with one of
\* these three a unit is listed iff its current status is the filter value.
C25_AbsenceIsAvailable ==
    (filteredUnits # Null /\ availabilityFilter # "") =>
        \A u \in PassOtherFilters :
            /\ availabilityFilter = "available" =>
                  (u \in filteredUnits[1]
                      <=> CurrentStatus(u.id) \in {Some("available"), Null})
            /\ availabilityFilter # "available" =>
                  (u \in filteredUnits[1]
                      <=> CurrentStatus(u.id) = Some(availabilityFilter))
            /\ u.id \notin DOMAIN sbAvailability =>
                  (u \in filteredUnits[1] <=> availabilityFilter = "available")

\* under 'available': a unit without an entry is listed, one sold today is not
C25_Witness ==
    /\ filteredUnits # Null
    /\ availabilityFilter = "available"
    /\ marketFilter = ""
    /\ typeFilter = ""
    /\ DOMAIN sbAvailability = {<<"AC-10D">>}
    /\ CurrentStatus(<<"AC-10D">>) = Some("sold")
    /\ {u.id : u \in filteredUnits[1]} = {<<"AC-11">>}


----------------------------------------------------------------------------
(* Properties of the registry *)

\* C26: after any sequence of imports every key of the registry is a unit
\* id of the catalog, the unitId of each entry is its key, each entry has at
\* least one period, and the status of every period is one of available,
\* sold, hold and pending.
C26_RegistryWellFormed ==
    \A u \in DOMAIN availability :
        /\ u \in unitIds
        /\ availability[u].unitId = u
        /\ Len(availability[u].periods) >= 1
        /\ \A k \in 1..Len(availability[u].periods) :
              availability[u].periods[k].status \in AvailabilityStatus

\* two imports done, the second from a file that also names a unit that is
\* not in the catalog
C26_Witness ==
    /\ imports = 2
    /\ DOMAIN availability = unitIds
    /\ isAvailImportOpen
    /\ file = Some("typos.csv")
    /\ Len(errors) = 1
    /\ errors[1].message = "Unknown unit ID: "


----------------------------------------------------------------------------
(* Properties of the point query against the range query *)

\* C27: the point query for a date d is null exactly when no period
\* contains d; when it returns a period of status s, the range query for
\* (d, d), and for every range that contains d, returns a status at least
\* as severe as s: a unit sold or on hold today is never 'available' for a
\* range containing today.
C27_PointAndRangeAgree ==
    qOp = "current" =>
        LET d == toISODate(qDate)
        IN  /\ qCurrent = Null <=>
                  \A i \in 1..Len(qPeriods) :
                      ~ (qPeriods[i].startDate <= d /\ d <= qPeriods[i].endDate)
            /\ qCurrent # Null =>
                  \A a \in QDays, b \in QDays :
                      (a <= d /\ d <= b) =>
                          Severity(getAvailabilityForRange(qAvail, a, b))
                              >= Severity(qCurrent[1].status)

\* the point query answers with a one-day hold that comes first in the
\* list, the range query for that day with the sold period after it
C27_Witness ==
    /\ qOp = "current"
    /\ qCurrent # Null
    /\ qCurrent[1].status = "hold"
    /\ qCurrent[1].startDate = qCurrent[1].endDate
    /\ getAvailabilityForRange(qAvail, toISODate(qDate), toISODate(qDate)) = "sold"


----------------------------------------------------------------------------
(* Properties of the selection *)

\* C28: handleToggleSelect(u) flips the membership of u in selectedIds and
\* of no other unit; toggling the same unit twice in a row restores the
\* selection; and a unit is selected iff it was toggled an odd number of
\* times.
C28_ToggleInvolution ==
    /\ \A u \in unitIds : u \in selectedIds <=> toggleCount[u] % 2 = 1
    /\ Len(lastToggled) >= 1 =>
          /\ lastToggled[1] \in selectedIds <=> lastToggled[1] \notin selectedBefore[1]
          /\ \A v \in unitIds \ {lastToggled[1]} :
                v \in selectedIds <=> v \in selectedBefore[1]
    /\ (Len(lastToggled) = 2 /\ lastToggled[1] = lastToggled[2]) =>
          selectedIds = selectedBefore[2]

\* a unit toggled twice in a row while the other unit stays selected
C28_Witness ==
    /\ lastToggled = << <<"AC-11">>, <<"AC-11">> >>
    /\ selectedBefore[2] = {<<"AC-10D">>}
    /\ toggleCount[<<"AC-11">>] = 4
    /\ selectedIds = {<<"AC-10D">>}


----------------------------------------------------------------------------
(* Properties of overlapping file reads *)

\* what parseCSV returns for the text of the file named n
ParseOf(n) == parsedText[n][tz]

\* the files whose text can be read and parses into rows without an error
CleanFiles ==
    {n \in FileNames :
        /\ FileNamed(n).readable
        /\ ParseOf(n) # Thrown
        /\ ParseOf(n).errors = <<>>}

\* C29: in every state of the import dialog, however the overlapping reads
\* interleave, when errors is empty and parsedData is not, parsedData is the
\* complete validated row set of one file whose parse gave no error.
C29_RowsOfOneCleanFile ==
    (isAvailImportOpen /\ errors = <<>> /\ parsedData # <<>>) =>
        \E n \in CleanFiles : parsedData = ParseOf(n).rows

\* the rows of flights.csv shown without errors while typos.csv, selected
\* after it, is still being read
C29_Witness ==
    /\ isAvailImportOpen
    /\ file = Some("typos.csv")
    /\ reads = <<"typos.csv">>
    /\ errors = <<>>
    /\ parsedData # <<>>
    /\ parsedData = ParseOf("flights.csv").rows


\* what the dialog shows for the file named n once its read is over: the
\* rows and errors of its parse, or the read failure
ShownFor(n) ==
    IF FileNamed(n).readable /\ ParseOf(n) # Thrown
    THEN [parsedData |-> ParseOf(n).rows, errors |-> ParseOf(n).errors]
    ELSE [parsedData |-> <<>>,
          errors |-> <<ParseError(0, "Failed to read file", <<>>)>>]

\* C30: once no read is in flight, the rows and errors shown are those of
\* the file selected last, the one whose name the dialog shows, whatever the
\* order in which the overlapping reads completed; and isProcessing is true
\* while some read is in flight.  (The notice that a dropped file is not a
\* CSV file replaces the errors without a selection; it is left aside.)
C30_LatestFileWins ==
    isAvailImportOpen =>
        /\ (reads = <<>> /\ file # Null
              /\ errors # <<ParseError(0, "Please upload a CSV file", <<>>)>>) =>
                 /\ parsedData = ShownFor(file[1]).parsedData
                 /\ errors = ShownFor(file[1]).errors
        /\ reads # <<>> => isProcessing

============================================================================
